---- MODULE Spec2Model ----
(***************************************************************************)
(* AuCPace over Ristretto255: the transcript / key-derivation helpers of   *)
(* aucpace/src/utils.rs and the server and client role state machines that *)
(* call them.                                                              *)
(*                                                                         *)
(* Modelling conventions                                                   *)
(*  - A hasher is the ordered list of the inputs it has absorbed; finalize *)
(*    returns that list (collision-free hash: two digests are equal iff    *)
(*    the same inputs were absorbed in the same order).                    *)
(*  - A group element is [base, exp], standing for exp * base.  The group  *)
(*    has prime order GroupOrder; bases produced by hash-to-group have no  *)
(*    known discrete-log relation, so elements over different bases are    *)
(*    different.  The identity is the single element with exp = 0.         *)
(*  - A CSPRNG call is an outcome [ok, bytes]: try_fill_bytes either       *)
(*    fails or fills the buffer with `bytes`.                              *)
(***************************************************************************)
EXTENDS Integers, Sequences, FiniteSets, TLC

(* ----------------------------- bounds --------------------------------- *)
\* random byte strings a CSPRNG call can return: 0..MaxRng
MaxRng == 2
\* nonces a peer can be sent: 0..MaxNonce
MaxNonce == 0
\* passwords 1..NumPasswords; password 1 is the registered one
NumPasswords == 2
\* usernames 1..NumUsers; user 1 is registered in the database
NumUsers == 2
\* contents of a pre-established SSID input: 1..NumSsidInputs
NumSsidInputs == 1

(* ------------------------ program constants --------------------------- *)
\* scaled-down prime order of the Ristretto group (Scalar arithmetic)
GroupOrder == 3
MIN_SSID_LEN == 16

(* ------------------------------ group --------------------------------- *)
Scalars == 0 .. (GroupOrder - 1)

Identity == [base |-> <<>>, exp |-> 0]

NoPoint == [base |-> <<>>, exp |-> 0 - 1]

RISTRETTO_BASEPOINT_POINT == [base |-> <<"B">>, exp |-> 1]

\* scalar * scalar (mod the group order)
ScalarMul(a, b) == (a * b) % GroupOrder

ScalarONE == 1

\* point * scalar
PointMul(p, k) ==
    IF (p.exp * k) % GroupOrder = 0
    THEN Identity
    ELSE [base |-> p.base, exp |-> (p.exp * k) % GroupOrder]

\* faulty variant: the identity test inverted
IsIdentity_inverted(p) == p.exp # 0

\* faulty variant: the identity test dropped
IsIdentity_never(p) == FALSE

IsIdentity(p) == p.exp = 0

\* RistrettoPoint::from_hash: a non-identity element determined by the hasher
PointFromHash(hasher) == [base |-> hasher, exp |-> 1]

\* Scalar::from_hash over the hasher that absorbed the random bytes: the
\* digest, read as an integer, reduced modulo the group order
ScalarFromHash(hasher) == hasher[Len(hasher)] % GroupOrder

\* compress().to_bytes(): the canonical encoding of an element
Compress(p) == <<p.base, p.exp>>

(* --------------------------- hash domains ----------------------------- *)
\* N.to_le_bytes() for a u32
ToLeBytes(n) ==
    << n % 256, (n \div 256) % 256, (n \div 65536) % 256, (n \div 16777216) % 256 >>

\* Default::default()
NewHasher == <<>>

Update(hasher, input) == Append(hasher, input)

Finalize(hasher) == hasher

\* faulty variant: the domain tag is not absorbed
H_untagged(n) == NewHasher

\* faulty variant: every domain absorbs the tag of domain 0
H_fixed_tag(n) == Update(NewHasher, ToLeBytes(0))

H(n) == Update(NewHasher, ToLeBytes(n))

H0 == H(0)

H1 == H(1)

H2 == H(2)

H3 == H(3)

H4 == H(4)

H5 == H(5)

(* ------------------------------ results ------------------------------- *)
Ok(v) == [ok |-> TRUE, val |-> v]

Err(e) == [ok |-> FALSE, err |-> e]

\* outcomes of one try_fill_bytes call
RngOutcomes ==
    {[ok |-> TRUE, bytes |-> n] : n \in 0 .. MaxRng} \cup {[ok |-> FALSE, bytes |-> 0]}

(* ------------------------------ utils.rs ------------------------------ *)
generate_nonce(rng) ==
    IF ~rng.ok THEN Err("Rng") ELSE Ok(rng.bytes)

\* faulty variant: the client nonce is absorbed before the server nonce
compute_ssid_swapped(s, t) == Finalize(Update(Update(H0, t), s))

compute_ssid(s, t) == Finalize(Update(Update(H0, s), t))

\* faulty variant: the password-related string is not absorbed by H1
generate_keypair_no_prs(rng, ssid, prs, ci) ==
    LET hasher    == Update(Update(H1, ssid), ci)
        generator == PointFromHash(hasher)
        priv_key  == ScalarFromHash(Update(NewHasher, rng.bytes))
        pub_key   == PointMul(generator, ScalarMul(priv_key, ScalarONE))
    IN  IF ~rng.ok THEN Err("Rng") ELSE Ok([priv |-> priv_key, pub |-> pub_key])

\* faulty variant: the result of try_fill_bytes is discarded
generate_keypair_ignores_rng(rng, ssid, prs, ci) ==
    LET hasher    == Update(Update(Update(H1, ssid), prs), ci)
        generator == PointFromHash(hasher)
        priv_key  == ScalarFromHash(Update(NewHasher, rng.bytes))
        pub_key   == PointMul(generator, ScalarMul(priv_key, ScalarONE))
    IN  Ok([priv |-> priv_key, pub |-> pub_key])

generate_keypair(rng, ssid, prs, ci) ==
    LET hasher    == Update(Update(Update(H1, ssid), prs), ci)
        generator == PointFromHash(hasher)
        priv_key  == ScalarFromHash(Update(NewHasher, rng.bytes))
        pub_key   == PointMul(generator, ScalarMul(priv_key, ScalarONE))
    IN  IF ~rng.ok THEN Err("Rng") ELSE Ok([priv |-> priv_key, pub |-> pub_key])

\* faulty variant: the peer's public key is hashed without the multiplication
compute_first_session_key_no_dh(ssid, priv_key, pub_key) ==
    Finalize(Update(Update(H2, ssid), Compress(pub_key)))

\* faulty variant: the private key is applied twice to the peer's public key
compute_first_session_key_squared(ssid, priv_key, pub_key) ==
    LET shared_point == PointMul(pub_key, ScalarMul(priv_key, priv_key))
    IN  Finalize(Update(Update(H2, ssid), Compress(shared_point)))

compute_first_session_key(ssid, priv_key, pub_key) ==
    LET shared_point == PointMul(pub_key, priv_key)
    IN  Finalize(Update(Update(H2, ssid), Compress(shared_point)))

\* faulty variant: sk1 is not absorbed by H3 and H4
compute_authenticator_messages_no_sk1(ssid, sk1) ==
    << Finalize(Update(H3, ssid)), Finalize(Update(H4, ssid)) >>

compute_authenticator_messages(ssid, sk1) ==
    << Finalize(Update(Update(H3, ssid), sk1)),
       Finalize(Update(Update(H4, ssid), sk1)) >>

\* faulty variant: the session key is taken in the domain of H4
compute_session_key_h4(ssid, sk1) == Finalize(Update(Update(H4, ssid), sk1))

compute_session_key(ssid, sk1) == Finalize(Update(Update(H5, ssid), sk1))

\* faulty variant: the test of the try_fill_bytes result inverted
generate_server_keypair_inverted(rng) ==
    LET private == ScalarFromHash(Update(NewHasher, rng.bytes))
        public  == PointMul(RISTRETTO_BASEPOINT_POINT, ScalarMul(private, ScalarONE))
    IN  IF rng.ok THEN Err("Rng") ELSE Ok([priv |-> private, pub |-> public])

generate_server_keypair(rng) ==
    LET private == ScalarFromHash(Update(NewHasher, rng.bytes))
        public  == PointMul(RISTRETTO_BASEPOINT_POINT, ScalarMul(private, ScalarONE))
    IN  IF ~rng.ok THEN Err("Rng") ELSE Ok([priv |-> private, pub |-> public])

(* ---------------------------- database -------------------------------- *)
Usernames == 1 .. NumUsers

Passwords == 1 .. NumPasswords

\* the channel identifier both roles are configured with
ChannelId == "test-ci"

\* ParamsString::default()
DefaultParams == ""

RegisteredParams == "m=19456,t=2,p=1"

RegisteredSalt == <<"c29tZXNhbHR5c2FsdA">>

ServerSeed == "server-secret-seed"

\* W = w*G with w the scalar of KDF(password, salt, params): the KDF is a
\* random oracle, so W is an element determined by (password, salt, params)
Verifier(password, salt, params) ==
    PointFromHash(<<"W", password, salt, params>>)

None == [some |-> FALSE]

Some(v) == [some |-> TRUE, val |-> v]

\* Database::lookup_verifier: user 1 is registered with password 1
lookup_verifier(username) ==
    IF username = 1
    THEN Some([verifier |-> Verifier(1, RegisteredSalt, RegisteredParams),
               salt     |-> RegisteredSalt,
               params   |-> RegisteredParams])
    ELSE None

\* StrongDatabase::lookup_verifier_strong: user 1 is registered, with secret
\* exponent q = 2
lookup_verifier_strong(username) ==
    IF username = 1
    THEN Some([verifier |-> Verifier(1, RegisteredSalt, RegisteredParams),
               exponent |-> 2,
               params   |-> RegisteredParams])
    ELSE None

\* faulty variant: the pseudo-values do not depend on the SSID
lookup_failed_no_ssid(ssid, username) ==
    [verifier |-> PointFromHash(<<"pseudo-verifier", ServerSeed, username>>),
     salt     |-> <<"pseudo-salt", ServerSeed, username>>,
     params   |-> DefaultParams]

\* lookup_failed: pseudo-verifier and pseudo-salt, a function of the server
\* seed, the SSID and the username; default parameters
lookup_failed(ssid, username) ==
    [verifier |-> PointFromHash(<<"pseudo-verifier", ServerSeed, ssid, username>>),
     salt     |-> <<"pseudo-salt", ServerSeed, ssid, username>>,
     params   |-> DefaultParams]

\* lookup_failed_strong: the pseudo-exponent q' is never zero
lookup_failed_strong(ssid, username) ==
    [verifier |-> PointFromHash(<<"pseudo-verifier", ServerSeed, ssid, username>>),
     exponent |-> 1 + ((username + Len(ssid)) % (GroupOrder - 1)),
     params   |-> DefaultParams]

(* ------------------------ secret-utils: wrappers ----------------------- *)
\* keys drawn as inputs have 0 .. MaxKeyLen bytes
MaxKeyLen == 2

\* number of values of a u8: `as u8` keeps a usize modulo U8Modulus
U8Modulus == 256

\* byte values the inputs are built from
ByteValues == {0, 1, 128}

\* usize ^ usize, u8 ^ u8
RECURSIVE BitXor(_, _)
BitXor(x, y) ==
    IF x = 0 THEN y
    ELSE IF y = 0 THEN x
    ELSE (((x % 2) + (y % 2)) % 2) + 2 * BitXor(x \div 2, y \div 2)

\* u8 | u8
RECURSIVE BitOr(_, _)
BitOr(x, y) ==
    IF x = 0 THEN y
    ELSE IF y = 0 THEN x
    ELSE (IF x % 2 = 1 \/ y % 2 = 1 THEN 1 ELSE 0) + 2 * BitOr(x \div 2, y \div 2)

\* usize as u8
AsU8(n) == n % U8Modulus

\* n zero bytes
Zeros(n) == [k \in 1 .. n |-> 0]

\* a Vec<u8>: `len` bytes in use at the front of the heap buffer `mem`
VecFrom(bytes) == [len |-> Len(bytes), mem |-> bytes]

\* Vec::default(): no bytes, no heap buffer
EmptyVec == VecFrom(<<>>)

\* &self.0 as a slice
AsSlice(vec) == SubSeq(vec.mem, 1, vec.len)

\* SecretBytes::new / SecretKey::new / From<Vec<u8>>
NewSecret(kind, bytes) == [kind |-> kind, vec |-> VecFrom(bytes), live |-> TRUE]

expose(secret) == AsSlice(secret.vec)

\* faulty variant: the length is reset, the bytes stay in the buffer
zeroize_clear_only(vec) == [len |-> 0, mem |-> vec.mem]

\* Zeroize for Vec<u8>: every byte of the buffer is overwritten with zero,
\* then the vector is cleared
zeroize(vec) == [len |-> 0, mem |-> Zeros(Len(vec.mem))]

\* core::mem::take: the vector moves out, Vec::default() is left behind
mem_take(vec) == [ret |-> vec, left |-> EmptyVec]

\* Drop for a plain Vec<u8>: the buffer is freed as it is, nothing is
\* overwritten; the result is what the freed buffer still contains
drop_vec(vec) == vec.mem

\* faulty variant: the vector is cloned and self keeps its buffer
into_inner_copies(secret) ==
    [ret     |-> secret.vec,
     dropped |-> [secret EXCEPT !.vec = zeroize(secret.vec), !.live = FALSE]]

\* faulty variant: the secret is zeroized before it is taken
into_inner_zeroizes_first(secret) ==
    LET taken == mem_take(zeroize(secret.vec))
    IN  [ret     |-> taken.ret,
         dropped |-> [secret EXCEPT !.vec = zeroize(taken.left), !.live = FALSE]]

\* into_inner(mut self): the vector is taken out of self, then self is
\* dropped, which zeroizes what self still holds
into_inner(secret) ==
    LET taken == mem_take(secret.vec)
    IN  [ret     |-> taken.ret,
         dropped |-> [secret EXCEPT !.vec = zeroize(taken.left), !.live = FALSE]]

\* the decimal digits of a usize, as "{}" prints it
RECURSIVE Decimal(_)
Decimal(n) == IF n < 10 THEN <<n>> ELSE Decimal(n \div 10) \o <<n % 10>>

\* faulty variant: the rendering a derived Debug would give
fmt_derived(secret) == <<secret.kind, "(", AsSlice(secret.vec), ")">>

\* Debug::fmt: the pieces written, in order
fmt(secret) == <<secret.kind, "([redacted], len=", Decimal(secret.vec.len), ")">>

\* faulty variant: the scan stops at the shorter key
max_len_min(a, b) == IF a.len > b.len THEN b.len ELSE a.len

\* ct_eq: let max_len = ...
max_len(a, b) == IF a.len > b.len THEN a.len ELSE b.len

\* ct_eq: let mut acc: u8 = (a.len() ^ b.len()) as u8
acc_init(a, b) == AsU8(BitXor(a.len, b.len))

\* a.get(i).copied().unwrap_or(0), i counted from 0
get_or_0(vec, i) == IF i < vec.len THEN vec.mem[i + 1] ELSE 0

\* faulty variant: the accumulator is overwritten
acc_fold_assign(acc, av, bv) == BitXor(av, bv)

\* ct_eq: acc |= av ^ bv
acc_fold(acc, av, bv) == BitOr(acc, BitXor(av, bv))

(* ------------------------ utils.rs: scalar_from_hash ------------------- *)
\* lengths of the hash field the inputs are drawn with
HashLens == {10, 31, 32, 33, 63, 64}

\* the little-endian integer of the bytes, reduced modulo m
\* base^e modulo m, by squaring
RECURSIVE PowMod(_, _, _)
PowMod(base, e, m) ==
    IF e = 0 THEN 1 % m
    ELSE LET h == PowMod(base, e \div 2, m)
         IN  (((h * h) % m) * (IF e % 2 = 1 THEN base % m ELSE 1)) % m

RECURSIVE LeMod(_, _)
LeMod(bytes, m) ==
    IF Len(bytes) = 0 THEN 0
    ELSE IF Len(bytes) = 1 THEN bytes[1] % m
    ELSE LET h  == Len(bytes) \div 2
             lo == SubSeq(bytes, 1, h)
             hi == SubSeq(bytes, h + 1, Len(bytes))
         IN  (LeMod(lo, m) + PowMod(U8Modulus, h, m) * LeMod(hi, m)) % m

\* Scalar::from_bytes_mod_order([u8; 32])
from_bytes_mod_order(arr) == LeMod(arr, GroupOrder)

\* Scalar::from_bytes_mod_order_wide(&[u8; 64])
from_bytes_mod_order_wide(arr) == LeMod(arr, GroupOrder)

\* faulty variant: the length of the hash is not checked
scalar_from_hash_any_len(pw_hash) ==
    IF ~pw_hash.hash.some THEN Err("HashEmpty")
    ELSE Ok(from_bytes_mod_order_wide(pw_hash.hash.val))

scalar_from_hash(pw_hash) ==
    IF ~pw_hash.hash.some THEN Err("HashEmpty")
    ELSE LET hash_bytes == pw_hash.hash.val
         IN  IF Len(hash_bytes) = 32
             THEN Ok(from_bytes_mod_order(hash_bytes))
             ELSE IF Len(hash_bytes) = 64
             THEN Ok(from_bytes_mod_order_wide(hash_bytes))
             ELSE Err("HashSizeInvalid")

(* ------------------------------ state --------------------------------- *)
VARIABLES
    srv,      \* server role state: [state, ssid, verifier, x, sk1, tb, sk]
    sSpent,   \* server state handles that have been consumed
    sOut,     \* messages the server has sent: [nonce, aug, pub, ta]
    sKey,     \* the key handed out by the server's into_session_key
    cli,      \* client role state: [state, ssid, prs, y, sk1, ta, sk]
    cSpent,   \* client state handles that have been consumed
    cOut,     \* messages the client has sent: [nonce, pub, tb]
    cKey,     \* the key handed out by the client's into_session_key
    login,    \* what the client side was given: [user, password]
    last,     \* the last operation called: its role, inputs and result
    inp,      \* inputs of the library calls: [kind, a, b, pw]
    secret,   \* the secret wrapper built from inp.a: [kind, vec, live]
    ct,       \* the frame of a running ct_eq: [pc, max_len, acc, i]
    res       \* the last library call and what it returned

vars ==
    << srv, sSpent, sOut, sKey, cli, cSpent, cOut, cKey, login, last,
       inp, secret, ct, res >>

roleVars == << srv, sSpent, sOut, sKey, cli, cSpent, cOut, cKey, login, last >>

libVars == << inp, secret, ct, res >>

srvVars == << srv, sSpent, sOut, sKey >>

cliVars == << cli, cSpent, cOut, cKey >>

NoDigest == <<>>

NoScalar == 0 - 1

NoNonce == 0 - 1

NoMsg == [type |-> "none"]

NoBytes == [len |-> 0, id |-> 0]

States ==
    << "Start", "SsidEstablished", "Augmented", "CPaceSubstep", "Confirmation",
       "SessionEstablished" >>

\* position of a state in the lifecycle
Rank(state) == CHOOSE i \in 1 .. Len(States) : States[i] = state

\* no operation called yet
NoCall ==
    [role |-> "none", op |-> "none", err |-> "none", rng |-> "none",
     retry |-> FALSE, user |-> 0, bytes |-> NoBytes, nonce |-> NoNonce,
     point |-> NoPoint, tag |-> NoDigest]

\* the record of a call of `op` by `role` that returned `err` ("none": Ok)
Call(role, op, err) == [NoCall EXCEPT !.role = role, !.op = op, !.err = err]

\* the record of a call that drew randomness; retry: the same call has just
\* failed with Error::Rng
RngCall(role, op, err, rng) ==
    [Call(role, op, err) EXCEPT
        !.rng = IF rng.ok THEN "ok" ELSE "fail",
        !.retry = (last.role = role /\ last.op = op /\ last.err = "Rng")]

\* inputs a pre-established SSID can be given: [len, id], one byte short of
\* MIN_SSID_LEN, exactly MIN_SSID_LEN or one byte more
SsidInputs ==
    {[len |-> l, id |-> i] :
        l \in (MIN_SSID_LEN - 1) .. (MIN_SSID_LEN + 1),
        i \in 1 .. NumSsidInputs}

NonceOutcomes == {o \in RngOutcomes : o.bytes <= MaxNonce}

Nonces == 0 .. MaxNonce

RoleInit ==
    /\ srv = [state |-> "Start", ssid |-> NoDigest, verifier |-> NoPoint,
              x |-> NoScalar, sk1 |-> NoDigest, tb |-> NoDigest, sk |-> NoDigest]
    /\ sSpent = {}
    /\ sOut = [nonce |-> NoNonce, aug |-> NoMsg, pub |-> NoPoint, ta |-> NoDigest]
    /\ sKey = NoDigest
    /\ cli = [state |-> "Start", ssid |-> NoDigest, prs |-> NoDigest,
              y |-> NoScalar, sk1 |-> NoDigest, ta |-> NoDigest, sk |-> NoDigest]
    /\ cSpent = {}
    /\ cOut = [nonce |-> NoNonce, pub |-> NoPoint, tb |-> NoDigest]
    /\ cKey = NoDigest
    /\ login \in [user : Usernames, password : Passwords]
    /\ last = NoCall

\* a PasswordHash without a hash field
NoHash == [hash |-> None]

NoInput == [kind |-> "none", a |-> <<>>, b |-> <<>>, pw |-> NoHash]

NoSecret == [kind |-> "none", vec |-> EmptyVec, live |-> FALSE]

\* no ct_eq is running
NoFrame == [pc |-> "idle", max_len |-> 0, acc |-> 0, i |-> 0]

NoResult == [op |-> "none"]

\* no library call is under way
LibIdle ==
    /\ inp = NoInput
    /\ secret = NoSecret
    /\ ct = NoFrame
    /\ res = NoResult

Init == RoleInit /\ LibIdle

(* ------------------------- what the wire carries ---------------------- *)
\* a byte string that is no digest: `d` with one bit flipped
FlipBit(d) == <<"flipped">> \o d

\* 64 zero bytes
ZeroTag == <<"zero">>

\* points a role can be handed: the identity, or the point its peer has sent
WirePoints(sent) == {p \in {Identity, sent} : p # NoPoint}

\* authenticators a role can be handed: zeros, or the tag its peer has sent,
\* as sent or with a bit flipped
WireTags(sent) ==
    IF sent = NoDigest THEN {ZeroTag} ELSE {sent, FlipBit(sent)}

\* points a client can send as its blinded salt request
BlindedPoints == {Identity, RISTRETTO_BASEPOINT_POINT}

(* ------------------------------ server -------------------------------- *)
\* the role state left by an operation that fails and ends the session:
\* every secret is zeroized, the state does not advance
Zeroized(role) ==
    [f \in DOMAIN role |->
        IF f = "state" THEN role.state
        ELSE IF f \in {"x", "y"} THEN NoScalar
        ELSE IF f = "verifier" THEN NoPoint
        ELSE NoDigest]

\* the operation returns an error and leaves the state handle as it was
ServerRetryable == UNCHANGED << srv, sSpent, sOut, sKey >>

\* the operation returns an error that ends the session
ServerTerminal ==
    /\ srv' = Zeroized(srv)
    /\ sSpent' = sSpent \cup {srv.state}
    /\ UNCHANGED << sOut, sKey >>

\* faulty variant: the consumed state handle stays usable
ServerAdvance_keeps_handle(next) ==
    /\ srv' = next
    /\ sSpent' = sSpent

\* the operation consumes the state and returns the next one
ServerAdvance(next) ==
    /\ srv' = next
    /\ sSpent' = sSpent \cup {srv.state}

ServerAt(state) == srv.state = state /\ state \notin sSpent

\* Start: begin_fresh_ssid()
ServerBeginFreshSsid ==
    \E rng \in NonceOutcomes, t \in Nonces :
        /\ ServerAt("Start")
        /\ LET s == generate_nonce(rng)
           IN  IF ~s.ok
               THEN /\ last' = [RngCall("server", "begin_fresh_ssid", s.err, rng)
                                   EXCEPT !.nonce = t]
                    /\ ServerRetryable
               ELSE /\ last' = [RngCall("server", "begin_fresh_ssid", "none", rng)
                                   EXCEPT !.nonce = t]
                    /\ ServerAdvance([srv EXCEPT !.state = "SsidEstablished",
                                                 !.ssid = compute_ssid(s.val, t)])
                    /\ sOut' = [sOut EXCEPT !.nonce = s.val]
                    /\ UNCHANGED sKey
        /\ UNCHANGED << cliVars, login, libVars >>

\* the SSID adopted from pre-established material: H0 over the input
prestablished_ssid(bytes) == Finalize(Update(H0, bytes))

\* Start: begin_prestablished_ssid(bytes)
ServerBeginPrestablishedSsid ==
    \E bytes \in SsidInputs :
        /\ ServerAt("Start")
        /\ IF bytes.len < MIN_SSID_LEN
           THEN /\ last' = [Call("server", "begin_prestablished_ssid",
                                 "InsufficientSsidLength") EXCEPT !.bytes = bytes]
                /\ ServerRetryable
           ELSE /\ last' = [Call("server", "begin_prestablished_ssid", "none")
                               EXCEPT !.bytes = bytes]
                /\ ServerAdvance([srv EXCEPT !.state = "SsidEstablished",
                                             !.ssid = prestablished_ssid(bytes)])
                /\ UNCHANGED << sOut, sKey >>
        /\ UNCHANGED << cliVars, login, libVars >>

\* SsidEstablished: generate_client_info(username, db, rng)
ServerGenerateClientInfo ==
    \E rng \in RngOutcomes :
        /\ ServerAt("SsidEstablished")
        /\ LET username == login.user
               found    == lookup_verifier(username)
               entry    == IF found.some THEN found.val
                           ELSE lookup_failed(srv.ssid, username)
               kp       == generate_server_keypair(rng)
           IN  IF ~kp.ok
               THEN /\ last' = [RngCall("server", "generate_client_info", kp.err, rng)
                                   EXCEPT !.user = username]
                    /\ ServerRetryable
               ELSE /\ last' = [RngCall("server", "generate_client_info", "none", rng)
                                   EXCEPT !.user = username]
                    /\ ServerAdvance([srv EXCEPT !.state = "Augmented",
                                                 !.verifier = entry.verifier,
                                                 !.x = kp.val.priv])
                    /\ sOut' = [sOut EXCEPT !.aug =
                                   [type         |-> "AugmentationInfo",
                                    group        |-> "ristretto255",
                                    x_pub        |-> kp.val.pub,
                                    salt         |-> entry.salt,
                                    pbkdf_params |-> entry.params]]
                    /\ UNCHANGED sKey
        /\ UNCHANGED << cliVars, login, libVars >>

\* SsidEstablished: generate_client_info_strong(username, blinded, db, rng)
ServerGenerateClientInfoStrong ==
    \E blinded \in BlindedPoints, rng \in RngOutcomes :
        /\ ServerAt("SsidEstablished")
        /\ LET username == login.user
               found    == lookup_verifier_strong(username)
               entry    == IF found.some THEN found.val
                           ELSE lookup_failed_strong(srv.ssid, username)
               kp       == generate_server_keypair(rng)
           IN  IF IsIdentity(blinded)
               THEN /\ last' = [Call("server", "generate_client_info_strong",
                                     "IllegalPoint")
                                   EXCEPT !.user = username, !.point = blinded]
                    /\ ServerTerminal
               ELSE IF ~kp.ok
               THEN /\ last' = [RngCall("server", "generate_client_info_strong",
                                        kp.err, rng)
                                   EXCEPT !.user = username, !.point = blinded]
                    /\ ServerRetryable
               ELSE /\ last' = [RngCall("server", "generate_client_info_strong",
                                        "none", rng)
                                   EXCEPT !.user = username, !.point = blinded]
                    /\ ServerAdvance([srv EXCEPT !.state = "Augmented",
                                                 !.verifier = entry.verifier,
                                                 !.x = kp.val.priv])
                    /\ sOut' = [sOut EXCEPT !.aug =
                                   [type         |-> "StrongAugmentationInfo",
                                    group        |-> "ristretto255",
                                    x_pub        |-> kp.val.pub,
                                    blinded_salt |-> PointMul(blinded, entry.exponent),
                                    pbkdf_params |-> entry.params]]
                    /\ UNCHANGED sKey
        /\ UNCHANGED << cliVars, login, libVars >>

\* Augmented: receive_client_pub(Y)
ServerReceiveClientPub ==
    \E Y \in WirePoints(cOut.pub), rng \in RngOutcomes :
        /\ ServerAt("Augmented")
        /\ LET prs == Compress(srv.verifier)
               kp  == generate_keypair(rng, srv.ssid, prs, ChannelId)
               sk1 == compute_first_session_key(srv.ssid, kp.val.priv, Y)
               T   == compute_authenticator_messages(srv.ssid, sk1)
           IN  IF IsIdentity(Y)
               THEN /\ last' = [Call("server", "receive_client_pub", "IllegalPoint")
                                   EXCEPT !.point = Y]
                    /\ ServerTerminal
               ELSE IF ~kp.ok
               THEN /\ last' = [RngCall("server", "receive_client_pub", kp.err, rng)
                                   EXCEPT !.point = Y]
                    /\ ServerRetryable
               ELSE /\ last' = [RngCall("server", "receive_client_pub", "none", rng)
                                   EXCEPT !.point = Y]
                    /\ ServerAdvance([srv EXCEPT !.state = "Confirmation",
                                                 !.verifier = NoPoint,
                                                 !.x = NoScalar,
                                                 !.sk1 = sk1,
                                                 !.tb = T[2]])
                    /\ sOut' = [sOut EXCEPT !.pub = kp.val.pub, !.ta = T[1]]
                    /\ UNCHANGED sKey
        /\ UNCHANGED << cliVars, login, libVars >>

\* Confirmation: receive_client_authenticator(Tb')
ServerReceiveClientAuthenticator ==
    \E tag \in WireTags(cOut.tb) :
        /\ ServerAt("Confirmation")
        /\ IF tag # srv.tb
           THEN /\ last' = [Call("server", "receive_client_authenticator",
                                 "AuthenticationFailed") EXCEPT !.tag = tag]
                /\ ServerTerminal
           ELSE /\ last' = [Call("server", "receive_client_authenticator", "none")
                               EXCEPT !.tag = tag]
                /\ ServerAdvance([Zeroized(srv) EXCEPT
                                     !.state = "SessionEstablished",
                                     !.sk = compute_session_key(srv.ssid, srv.sk1)])
                /\ UNCHANGED << sOut, sKey >>
        /\ UNCHANGED << cliVars, login, libVars >>

\* SessionEstablished: into_session_key()
ServerIntoSessionKey ==
    /\ ServerAt("SessionEstablished")
    /\ last' = Call("server", "into_session_key", "none")
    /\ sKey' = srv.sk
    /\ ServerAdvance(Zeroized(srv))
    /\ UNCHANGED << sOut, cliVars, login, libVars >>

\* an operation applied to a state value that was already consumed
ServerReuse ==
    \E handle \in sSpent :
        /\ last' = Call("server", "reuse", "OutOfSequence")
        /\ UNCHANGED << srvVars, cliVars, login, libVars >>

(* ------------------------------ client -------------------------------- *)
ClientRetryable == UNCHANGED << cli, cSpent, cOut, cKey >>

ClientTerminal ==
    /\ cli' = Zeroized(cli)
    /\ cSpent' = cSpent \cup {cli.state}
    /\ UNCHANGED << cOut, cKey >>

ClientAdvance(next) ==
    /\ cli' = next
    /\ cSpent' = cSpent \cup {cli.state}

ClientAt(state) == cli.state = state /\ state \notin cSpent

\* Start: the client sends its nonce t, awaits s
ClientBeginFreshSsid ==
    \E rng \in NonceOutcomes, s \in Nonces :
        /\ ClientAt("Start")
        /\ LET t == generate_nonce(rng)
           IN  IF ~t.ok
               THEN /\ last' = [RngCall("client", "begin_fresh_ssid", t.err, rng)
                                   EXCEPT !.nonce = s]
                    /\ ClientRetryable
               ELSE /\ last' = [RngCall("client", "begin_fresh_ssid", "none", rng)
                                   EXCEPT !.nonce = s]
                    /\ ClientAdvance([cli EXCEPT !.state = "SsidEstablished",
                                                 !.ssid = compute_ssid(s, t.val)])
                    /\ cOut' = [cOut EXCEPT !.nonce = t.val]
                    /\ UNCHANGED cKey
        /\ UNCHANGED << srvVars, login, libVars >>

\* Start: begin_prestablished_ssid(bytes)
ClientBeginPrestablishedSsid ==
    \E bytes \in SsidInputs :
        /\ ClientAt("Start")
        /\ IF bytes.len < MIN_SSID_LEN
           THEN /\ last' = [Call("client", "begin_prestablished_ssid",
                                 "InsufficientSsidLength") EXCEPT !.bytes = bytes]
                /\ ClientRetryable
           ELSE /\ last' = [Call("client", "begin_prestablished_ssid", "none")
                               EXCEPT !.bytes = bytes]
                /\ ClientAdvance([cli EXCEPT !.state = "SsidEstablished",
                                             !.ssid = prestablished_ssid(bytes)])
                /\ UNCHANGED << cOut, cKey >>
        /\ UNCHANGED << srvVars, login, libVars >>

\* SsidEstablished: the client receives AugmentationInfo, recomputes W by the
\* KDF over (password, salt, params) and the PRS from W
ClientReceiveAugmentationInfo ==
    /\ ClientAt("SsidEstablished")
    /\ sOut.aug.type = "AugmentationInfo"
    /\ IF IsIdentity(sOut.aug.x_pub)
       THEN /\ last' = [Call("client", "receive_augmentation_info", "IllegalPoint")
                           EXCEPT !.point = sOut.aug.x_pub]
            /\ ClientTerminal
       ELSE /\ last' = [Call("client", "receive_augmentation_info", "none")
                           EXCEPT !.point = sOut.aug.x_pub]
            /\ ClientAdvance([cli EXCEPT
                                 !.state = "Augmented",
                                 !.prs = Compress(Verifier(login.password,
                                                           sOut.aug.salt,
                                                           sOut.aug.pbkdf_params))])
            /\ UNCHANGED << cOut, cKey >>
    /\ UNCHANGED << srvVars, login, libVars >>

\* Augmented: the client generates (y, Y) and sends Y
ClientGenerateKeypair ==
    \E rng \in RngOutcomes :
        /\ ClientAt("Augmented")
        /\ LET kp == generate_keypair(rng, cli.ssid, cli.prs, ChannelId)
           IN  IF ~kp.ok
               THEN /\ last' = RngCall("client", "generate_keypair", kp.err, rng)
                    /\ ClientRetryable
               ELSE /\ last' = RngCall("client", "generate_keypair", "none", rng)
                    /\ ClientAdvance([cli EXCEPT !.state = "CPaceSubstep",
                                                 !.prs = NoDigest,
                                                 !.y = kp.val.priv])
                    /\ cOut' = [cOut EXCEPT !.pub = kp.val.pub]
                    /\ UNCHANGED cKey
        /\ UNCHANGED << srvVars, login, libVars >>

\* CPaceSubstep: the client receives the server's public key X, computes
\* sk1 and the authenticators, sends Tb and retains Ta
ClientReceiveServerPub ==
    \E X \in WirePoints(sOut.pub) :
        /\ ClientAt("CPaceSubstep")
        /\ LET sk1 == compute_first_session_key(cli.ssid, cli.y, X)
               T   == compute_authenticator_messages(cli.ssid, sk1)
           IN  IF IsIdentity(X)
               THEN /\ last' = [Call("client", "receive_server_pub", "IllegalPoint")
                                   EXCEPT !.point = X]
                    /\ ClientTerminal
               ELSE /\ last' = [Call("client", "receive_server_pub", "none")
                                   EXCEPT !.point = X]
                    /\ ClientAdvance([cli EXCEPT !.state = "Confirmation",
                                                 !.y = NoScalar,
                                                 !.sk1 = sk1,
                                                 !.ta = T[1]])
                    /\ cOut' = [cOut EXCEPT !.tb = T[2]]
                    /\ UNCHANGED cKey
        /\ UNCHANGED << srvVars, login, libVars >>

\* Confirmation: the client receives Ta', verifies it and emits sk
ClientReceiveServerAuthenticator ==
    \E tag \in WireTags(sOut.ta) :
        /\ ClientAt("Confirmation")
        /\ IF tag # cli.ta
           THEN /\ last' = [Call("client", "receive_server_authenticator",
                                 "AuthenticationFailed") EXCEPT !.tag = tag]
                /\ ClientTerminal
           ELSE /\ last' = [Call("client", "receive_server_authenticator", "none")
                               EXCEPT !.tag = tag]
                /\ ClientAdvance([Zeroized(cli) EXCEPT
                                     !.state = "SessionEstablished",
                                     !.sk = compute_session_key(cli.ssid, cli.sk1)])
                /\ UNCHANGED << cOut, cKey >>
        /\ UNCHANGED << srvVars, login, libVars >>

\* SessionEstablished: into_session_key()
ClientIntoSessionKey ==
    /\ ClientAt("SessionEstablished")
    /\ last' = Call("client", "into_session_key", "none")
    /\ cKey' = cli.sk
    /\ ClientAdvance(Zeroized(cli))
    /\ UNCHANGED << cOut, srvVars, login, libVars >>

\* an operation applied to a state value that was already consumed
ClientReuse ==
    \E handle \in cSpent :
        /\ last' = Call("client", "reuse", "OutOfSequence")
        /\ UNCHANGED << srvVars, cliVars, login, libVars >>

(* --------------------------- specification ---------------------------- *)
Next ==
    \/ ServerBeginFreshSsid
    \/ ServerBeginPrestablishedSsid
    \/ ServerGenerateClientInfo
    \/ ServerGenerateClientInfoStrong
    \/ ServerReceiveClientPub
    \/ ServerReceiveClientAuthenticator
    \/ ServerIntoSessionKey
    \/ ServerReuse
    \/ ClientBeginFreshSsid
    \/ ClientBeginPrestablishedSsid
    \/ ClientReceiveAugmentationInfo
    \/ ClientGenerateKeypair
    \/ ClientReceiveServerPub
    \/ ClientReceiveServerAuthenticator
    \/ ClientIntoSessionKey
    \/ ClientReuse

Spec == Init /\ [][Next]_vars

(* --------------------------- library calls ---------------------------- *)
\* keys of 0 .. MaxKeyLen bytes
ShortKeys == UNION {[1 .. n -> ByteValues] : n \in 0 .. MaxKeyLen}

\* the empty key and the one-byte keys, followed by U8Modulus zero bytes
PaddedKeys == {k \o Zeros(U8Modulus) : k \in {s \in ShortKeys : Len(s) <= 1}}

KeyInputs == ShortKeys \cup PaddedKeys

\* password hashes: without a hash field, or with one of a length in
\* HashLens that starts with a short key and goes on with zero bytes
HashInputs ==
    {NoHash} \cup
    {[hash |-> Some(k \o Zeros(n - Len(k)))] : k \in ShortKeys, n \in HashLens}

\* the inputs are drawn and the wrapper is built
LibInit ==
    /\ RoleInit
    /\ login = [user |-> 1, password |-> 1]
    /\ \/ inp \in [kind : {"SecretKey"}, a : KeyInputs, b : KeyInputs, pw : {NoHash}]
       \/ inp \in [kind : {"SecretBytes"}, a : KeyInputs, b : {<<>>}, pw : {NoHash}]
       \/ inp \in [kind : {"PasswordHash"}, a : {<<>>}, b : {<<>>}, pw : HashInputs]
    /\ secret = IF inp.kind = "PasswordHash" THEN NoSecret
                ELSE NewSecret(inp.kind, inp.a)
    /\ ct = NoFrame
    /\ res = NoResult

\* the wrapper can be operated on
Usable == secret.live /\ ct.pc = "idle"

\* the key the wrapper is compared with
other == NewSecret("SecretKey", inp.b)

\* secret.zeroize()
SecretZeroize ==
    /\ Usable
    /\ secret' = [secret EXCEPT !.vec = zeroize(secret.vec)]
    /\ res' = [op |-> "zeroize"]
    /\ UNCHANGED << inp, ct, roleVars >>

\* drop(secret): ZeroizeOnDrop
SecretDrop ==
    /\ Usable
    /\ secret' = [secret EXCEPT !.vec = zeroize(secret.vec), !.live = FALSE]
    /\ res' = [op |-> "drop"]
    /\ UNCHANGED << inp, ct, roleVars >>

\* secret.into_inner()
SecretIntoInner ==
    /\ Usable
    /\ LET r == into_inner(secret)
       IN  /\ secret' = r.dropped
           /\ res' = [op |-> "into_inner", val |-> r.ret]
    /\ UNCHANGED << inp, ct, roleVars >>

\* format!("{:?}", secret)
SecretDebug ==
    /\ Usable
    /\ res' = [op |-> "fmt", val |-> fmt(secret)]
    /\ UNCHANGED << inp, secret, ct, roleVars >>

\* secret.ct_eq(&other): up to the loop
CtEqBegin ==
    /\ Usable
    /\ secret.kind = "SecretKey"
    /\ ct' = [pc      |-> "loop",
              max_len |-> max_len(secret.vec, other.vec),
              acc     |-> acc_init(secret.vec, other.vec),
              i       |-> 0]
    /\ res' = [op |-> "ct_eq_running"]
    /\ UNCHANGED << inp, secret, roleVars >>

\* one iteration of while i < max_len
CtEqIter ==
    /\ ct.pc = "loop"
    /\ ct.i < ct.max_len
    /\ LET av == get_or_0(secret.vec, ct.i)
           bv == get_or_0(other.vec, ct.i)
       IN  ct' = [ct EXCEPT !.acc = acc_fold(ct.acc, av, bv), !.i = ct.i + 1]
    /\ UNCHANGED << inp, secret, res, roleVars >>

\* the loop is left: acc == 0 is returned; steps: the iterations made
CtEqReturn ==
    /\ ct.pc = "loop"
    /\ ~(ct.i < ct.max_len)
    /\ res' = [op |-> "ct_eq", val |-> (ct.acc = 0), steps |-> ct.i]
    /\ ct' = NoFrame
    /\ UNCHANGED << inp, secret, roleVars >>

\* scalar_from_hash(&pw_hash)
ScalarFromHashCall ==
    /\ inp.kind = "PasswordHash"
    /\ res' = [op |-> "scalar_from_hash", val |-> scalar_from_hash(inp.pw)]
    /\ UNCHANGED << inp, secret, ct, roleVars >>

\* drop(v) of the Vec<u8> that into_inner returned
InnerDrop ==
    /\ res.op = "into_inner"
    /\ res' = [op |-> "drop_inner", freed |-> drop_vec(res.val)]
    /\ UNCHANGED << inp, secret, ct, roleVars >>

LibNext ==
    \/ SecretZeroize
    \/ SecretDrop
    \/ SecretIntoInner
    \/ SecretDebug
    \/ CtEqBegin
    \/ CtEqIter
    \/ CtEqReturn
    \/ ScalarFromHashCall
    \/ InnerDrop

LibSpec == LibInit /\ [][LibNext]_vars

(* ------------------------------ claims -------------------------------- *)
\* the user the client names is registered and the client has its password
RightPassword ==
    /\ lookup_verifier(login.user).some
    /\ Verifier(login.password, lookup_verifier(login.user).val.salt,
                lookup_verifier(login.user).val.params)
           = lookup_verifier(login.user).val.verifier

\* the user the client names is registered and the client has another password
WrongPassword ==
    /\ lookup_verifier(login.user).some
    /\ ~RightPassword

UnknownUser == ~lookup_verifier(login.user).some

\* the session key a role has emitted, in its final state or handed out
ServerSk == IF sKey # NoDigest THEN sKey ELSE srv.sk

ClientSk == IF cKey # NoDigest THEN cKey ELSE cli.sk

\* C1: in an honest run (same SSID, same password-related string, same
\* channel identifier, keys X = x*G_pw and Y = y*G_pw exchanged) the first
\* session keys computed by the two roles are equal, hence so are their
\* authenticators and the session key sk each derives; two emitted session
\* keys are always equal.
C1_SameSessionKey ==
    /\ \A a \in RngOutcomes, b \in RngOutcomes :
           (a.ok /\ b.ok) =>
               LET x == generate_keypair(a, srv.ssid, cli.prs, ChannelId).val
                   y == generate_keypair(b, srv.ssid, cli.prs, ChannelId).val
                   sx == compute_first_session_key(srv.ssid, x.priv, y.pub)
                   sy == compute_first_session_key(srv.ssid, y.priv, x.pub)
               IN  /\ sx = sy
                   /\ compute_session_key(srv.ssid, sx)
                          = compute_session_key(srv.ssid, sy)
    /\ ( /\ RightPassword
         /\ srv.sk1 # NoDigest
         /\ cli.sk1 # NoDigest
         /\ srv.ssid = cli.ssid )
       => /\ srv.sk1 = cli.sk1
          /\ srv.tb = cOut.tb
          /\ cli.ta = sOut.ta
          /\ compute_session_key(srv.ssid, srv.sk1)
                 = compute_session_key(cli.ssid, cli.sk1)
    /\ (ServerSk # NoDigest /\ ClientSk # NoDigest) => ServerSk = ClientSk

\* C1 witness: an honest run in which both roles hold the same session key
C1_Witness ==
    /\ RightPassword
    /\ srv.state = "SessionEstablished"
    /\ cli.state = "SessionEstablished"
    /\ srv.sk # NoDigest
    /\ srv.sk = cli.sk

\* C2: receive_client_authenticator in Confirmation: a tag different from the
\* retained Tb returns AuthenticationFailed, leaves the server out of
\* SessionEstablished and emits no key; the server enters SessionEstablished
\* only by this operation with the retained Tb, and then sk = H5(SSID, sk1).
C2_AuthenticatorStep ==
    /\ (last'.role = "server" /\ last'.op = "receive_client_authenticator"
            /\ last'.tag # srv.tb)
       => /\ last'.err = "AuthenticationFailed"
          /\ srv'.state = "Confirmation"
          /\ srv'.sk = NoDigest
          /\ sKey' = NoDigest
    /\ (srv'.state = "SessionEstablished" /\ srv.state # "SessionEstablished")
       => /\ srv.state = "Confirmation"
          /\ last'.op = "receive_client_authenticator"
          /\ last'.tag = srv.tb
          /\ last'.err = "none"
          /\ srv'.sk = << <<5, 0, 0, 0>>, srv.ssid, srv.sk1 >>

C2_NoKeyAfterFailure ==
    (srv.state = "Confirmation" /\ "Confirmation" \in sSpent)
        => (srv.sk = NoDigest /\ sKey = NoDigest)

C2_AuthenticatorGate == []C2_NoKeyAfterFailure /\ [][C2_AuthenticatorStep]_vars

\* C2 witness: the client's Tb arrives with a bit flipped and is refused
C2_Witness ==
    /\ last.role = "server"
    /\ last.op = "receive_client_authenticator"
    /\ cOut.tb # NoDigest
    /\ last.tag = FlipBit(cOut.tb)
    /\ last.err = "AuthenticationFailed"

\* C3: with a wrong password no session key is ever emitted on either side,
\* the server's authenticator check fails, and the client meets no failure
\* before authenticator verification other than the ones a client with the
\* right password meets (RNG failure, identity point, short SSID, reuse).
C3_WrongPasswordNoKey ==
    WrongPassword =>
        /\ ServerSk = NoDigest
        /\ ClientSk = NoDigest
        /\ srv.state # "SessionEstablished"
        /\ cli.state # "SessionEstablished"
        /\ (last.op = "receive_client_authenticator"
                => last.err = "AuthenticationFailed")
        /\ (last.role = "client" /\ last.err = "AuthenticationFailed")
                => last.op = "receive_server_authenticator"

\* C3 witness: the client with a wrong password has sent its Tb, and the
\* server has refused that very Tb
C3_Witness ==
    /\ WrongPassword
    /\ cli.state = "Confirmation"
    /\ cOut.tb # NoDigest
    /\ last.role = "server"
    /\ last.op = "receive_client_authenticator"
    /\ last.tag = cOut.tb
    /\ last.err = "AuthenticationFailed"

\* C4: generate_client_info on an SsidEstablished server, for a username the
\* database does not know and with a CSPRNG call that succeeds, returns Ok
\* with an AugmentationInfo message whose group is "ristretto255" and whose
\* pbkdf_params are the default ParamsString.
C4_LookupFailedAug ==
    ( /\ last.role = "server"
      /\ last.op = "generate_client_info"
      /\ ~lookup_verifier(last.user).some
      /\ last.rng = "ok" )
    => /\ last.err = "none"
       /\ srv.state = "Augmented"
       /\ sOut.aug.type = "AugmentationInfo"
       /\ sOut.aug.group = "ristretto255"
       /\ sOut.aug.pbkdf_params = DefaultParams

\* C4 witness: the lookup_failed path has produced an AugmentationInfo
C4_Witness ==
    /\ last.role = "server"
    /\ last.op = "generate_client_info"
    /\ ~lookup_verifier(last.user).some
    /\ last.err = "none"
    /\ sOut.aug.type = "AugmentationInfo"
    /\ sOut.aug.pbkdf_params = DefaultParams

\* C4 as stated: for every unknown username the call returns Ok, never an
\* error
C4_AsStated ==
    ( /\ last.role = "server"
      /\ last.op = "generate_client_info"
      /\ ~lookup_verifier(last.user).some )
    => /\ last.err = "none"
       /\ sOut.aug.type = "AugmentationInfo"
       /\ sOut.aug.group = "ristretto255"
       /\ sOut.aug.pbkdf_params = DefaultParams

\* C5: generate_client_info_strong, for a username the database does not
\* know, a non-identity blinded point B and a CSPRNG call that succeeds,
\* returns Ok with a StrongAugmentationInfo message whose group is
\* "ristretto255", whose pbkdf_params are the default and whose blinded_salt
\* is not the identity; no StrongAugmentationInfo ever carries the identity.
C5_LookupFailedStrong ==
    /\ ( /\ last.role = "server"
         /\ last.op = "generate_client_info_strong"
         /\ ~lookup_verifier_strong(last.user).some
         /\ last.point # Identity
         /\ last.rng = "ok" )
       => /\ last.err = "none"
          /\ srv.state = "Augmented"
          /\ sOut.aug.type = "StrongAugmentationInfo"
          /\ sOut.aug.group = "ristretto255"
          /\ sOut.aug.pbkdf_params = DefaultParams
          /\ sOut.aug.blinded_salt # Identity
    /\ sOut.aug.type = "StrongAugmentationInfo"
       => sOut.aug.blinded_salt.exp # 0

\* C5 witness: the strong lookup_failed path has answered the base point
C5_Witness ==
    /\ last.role = "server"
    /\ last.op = "generate_client_info_strong"
    /\ ~lookup_verifier_strong(last.user).some
    /\ last.point = RISTRETTO_BASEPOINT_POINT
    /\ last.err = "none"
    /\ sOut.aug.type = "StrongAugmentationInfo"
    /\ sOut.aug.blinded_salt # Identity

\* C5 as stated: for every unknown username and non-identity B the call
\* returns Ok
C5_AsStated ==
    ( /\ last.role = "server"
      /\ last.op = "generate_client_info_strong"
      /\ ~lookup_verifier_strong(last.user).some
      /\ last.point # Identity )
    => /\ last.err = "none"
       /\ sOut.aug.type = "StrongAugmentationInfo"
       /\ sOut.aug.blinded_salt # Identity

\* C6: a session for a username the database does not know emits no session
\* key and returns no error of its own: each error the server returns has a
\* cause that does not depend on the user (Rng: the CSPRNG call failed;
\* IllegalPoint: the identity was received; InsufficientSsidLength: short
\* SSID input; OutOfSequence: a consumed handle), and every authenticator
\* offered at Confirmation is answered AuthenticationFailed.
C6_UnknownUser ==
    UnknownUser =>
        /\ ServerSk = NoDigest
        /\ ClientSk = NoDigest
        /\ srv.state # "SessionEstablished"
        /\ last.role = "server" =>
            /\ last.err \in {"none", "Rng", "IllegalPoint", "InsufficientSsidLength",
                             "AuthenticationFailed", "OutOfSequence"}
            /\ last.err = "Rng" <=> last.rng = "fail"
            /\ last.err = "IllegalPoint" <=> last.point = Identity
            /\ last.err = "InsufficientSsidLength"
                   <=> (last.op = "begin_prestablished_ssid" /\ last.bytes.len < 16)
            /\ last.err = "AuthenticationFailed"
                   <=> last.op = "receive_client_authenticator"
            /\ last.err = "OutOfSequence" <=> last.op = "reuse"

\* C6 witness: the session of an unknown user has reached Confirmation and
\* the client's own Tb has been refused
C6_Witness ==
    /\ UnknownUser
    /\ cOut.tb # NoDigest
    /\ last.role = "server"
    /\ last.op = "receive_client_authenticator"
    /\ last.tag = cOut.tb
    /\ last.err = "AuthenticationFailed"
    /\ srv.state = "Confirmation"

\* C6 as stated: the only failure the session of an unknown user can end
\* with is AuthenticationFailed
C6_AsStated ==
    ( /\ UnknownUser
      /\ last.role = "server"
      /\ last.op # "reuse"
      /\ last.err # "none"
      /\ srv.state \in sSpent )
    => last.err = "AuthenticationFailed"

\* C7: an operation that is handed the identity element returns IllegalPoint,
\* leaves the state where it was, sends no message and leaves no key
\* material behind.
C7_IdentityStep ==
    last'.point = Identity =>
        /\ last'.err = "IllegalPoint"
        /\ srv'.state = srv.state
        /\ cli'.state = cli.state
        /\ sOut' = sOut
        /\ cOut' = cOut
        /\ sKey' = sKey
        /\ cKey' = cKey
        /\ last'.role = "server"
               => (srv'.sk1 = NoDigest /\ srv'.tb = NoDigest /\ srv'.sk = NoDigest)
        /\ last'.role = "client"
               => (cli'.sk1 = NoDigest /\ cli'.ta = NoDigest /\ cli'.sk = NoDigest)

C7_IllegalPoint == [][C7_IdentityStep]_vars

\* C7 witness: the server was handed the identity as the client's Y
C7_Witness ==
    /\ last.role = "server"
    /\ last.op = "receive_client_pub"
    /\ last.point = Identity
    /\ last.err = "IllegalPoint"
    /\ srv.state = "Augmented"
    /\ sOut.pub = NoPoint

\* C8: begin_prestablished_ssid with fewer than 16 bytes returns
\* InsufficientSsidLength and stays in Start with no SSID; with 16 bytes or
\* more it reaches SsidEstablished with the SSID that is the H0 digest (tag
\* 0 as 4 little-endian bytes) of the bytes and of nothing else.
C8_PrestablishedSsid ==
    last.op = "begin_prestablished_ssid" =>
        LET role  == IF last.role = "server" THEN srv ELSE cli
            spent == IF last.role = "server" THEN sSpent ELSE cSpent
        IN  IF last.bytes.len < 16
            THEN /\ last.err = "InsufficientSsidLength"
                 /\ role.state = "Start"
                 /\ role.ssid = NoDigest
                 /\ "Start" \notin spent
            ELSE /\ last.err = "none"
                 /\ role.state = "SsidEstablished"
                 /\ role.ssid = << <<0, 0, 0, 0>>, last.bytes >>

\* C8 witness: the server has adopted a 16-byte input, the client has been
\* refused a 15-byte one
C8_Witness ==
    /\ srv.state = "SsidEstablished"
    /\ srv.ssid = << <<0, 0, 0, 0>>, [len |-> 16, id |-> 1] >>
    /\ last.role = "client"
    /\ last.op = "begin_prestablished_ssid"
    /\ last.bytes.len = 15
    /\ last.err = "InsufficientSsidLength"
    /\ cli.state = "Start"

\* C9: an operation whose CSPRNG call fails returns Error::Rng, sends no
\* message, produces no key or nonce, and leaves the state handle as it was,
\* so that the same operation succeeds from it once the CSPRNG works.
C9_RngFailureStep ==
    last'.rng = "fail" =>
        /\ last'.err = "Rng"
        /\ srv' = srv
        /\ sSpent' = sSpent
        /\ sOut' = sOut
        /\ sKey' = sKey
        /\ cli' = cli
        /\ cSpent' = cSpent
        /\ cOut' = cOut
        /\ cKey' = cKey

\* the same operation, called again, with a CSPRNG call that succeeds
C9_RetrySucceeds ==
    /\ Next
    /\ last'.role = last.role
    /\ last'.op = last.op
    /\ last'.retry
    /\ last'.rng = "ok"
    /\ last'.err = "none"

C9_RngFailureState ==
    /\ \A o \in RngOutcomes :
           ~o.ok => /\ generate_nonce(o) = Err("Rng")
                    /\ generate_server_keypair(o) = Err("Rng")
                    /\ generate_keypair(o, srv.ssid, cli.prs, ChannelId) = Err("Rng")
    /\ last.err = "Rng" <=> last.rng = "fail"
    /\ last.err = "Rng" =>
           /\ last.role = "server" => srv.state \notin sSpent
           /\ last.role = "client" => cli.state \notin cSpent
           /\ ENABLED C9_RetrySucceeds

C9_RngFailure == []C9_RngFailureState /\ [][C9_RngFailureStep]_vars

\* C9 witness: generate_client_info succeeds on the retry that follows a
\* CSPRNG failure
C9_Witness ==
    /\ last.role = "server"
    /\ last.op = "generate_client_info"
    /\ last.retry
    /\ last.rng = "ok"
    /\ last.err = "none"
    /\ srv.state = "Augmented"

\* C10: a role state only moves forward in the lifecycle order. The client
\* moves one state per operation; so does the server, except that its
\* receive_client_pub takes Augmented straight to Confirmation, so the server
\* is never in CPaceSubstep. A state that is left is consumed, stays
\* consumed, and an operation on it returns OutOfSequence and changes
\* nothing.
C10_LifecycleStep ==
    /\ Rank(cli'.state) \in {Rank(cli.state), Rank(cli.state) + 1}
    /\ \/ Rank(srv'.state) \in {Rank(srv.state), Rank(srv.state) + 1}
       \/ /\ srv.state = "Augmented"
          /\ srv'.state = "Confirmation"
          /\ last'.op = "receive_client_pub"
    /\ srv'.state # srv.state => (srv.state \in sSpent' /\ srv'.state \notin sSpent')
    /\ cli'.state # cli.state => (cli.state \in cSpent' /\ cli'.state \notin cSpent')
    /\ sSpent \subseteq sSpent'
    /\ cSpent \subseteq cSpent'
    /\ last'.op = "reuse" =>
           /\ last'.err = "OutOfSequence"
           /\ UNCHANGED << srv, sSpent, sOut, sKey, cli, cSpent, cOut, cKey >>
           /\ last'.role = "server" => sSpent # {}
           /\ last'.role = "client" => cSpent # {}

C10_LifecycleState ==
    /\ srv.state # "CPaceSubstep"
    /\ \A i \in 1 .. (Rank(srv.state) - 1) :
           States[i] \in sSpent \/ States[i] = "CPaceSubstep"
    /\ \A i \in 1 .. (Rank(cli.state) - 1) : States[i] \in cSpent
    /\ \A s \in sSpent : Rank(s) <= Rank(srv.state)
    /\ \A s \in cSpent : Rank(s) <= Rank(cli.state)

C10_AsStatedStep ==
    /\ Rank(srv'.state) \in {Rank(srv.state), Rank(srv.state) + 1}
    /\ Rank(cli'.state) \in {Rank(cli.state), Rank(cli.state) + 1}

MaxOf(m, n) == IF m > n THEN m ELSE n

\* C11: ct_eq returns true when the two keys are equal as byte sequences,
\* and false when they have the same length and differ in some byte.
C11_CtEqEqualLength ==
    res.op = "ct_eq" =>
        /\ expose(secret) = inp.b => res.val = TRUE
        /\ ( /\ Len(expose(secret)) = Len(inp.b)
             /\ \E k \in 1 .. Len(inp.b) : expose(secret)[k] # inp.b[k] )
           => res.val = FALSE

\* C11 witness: two keys of two bytes that differ in the first byte only
\* have been compared
C11_Witness ==
    /\ res.op = "ct_eq"
    /\ expose(secret) = <<1, 128>>
    /\ inp.b = <<0, 128>>
    /\ res.val = FALSE

\* C12: into_inner returns the bytes the wrapper holds; on the wrapper just
\* built from v it returns v, with the same length and the same bytes in the
\* same order, for SecretBytes and for SecretKey.
C12_IntoInnerStep ==
    (res'.op = "into_inner" /\ res.op # "into_inner") =>
        /\ AsSlice(res'.val) = expose(secret)
        /\ secret = NewSecret(inp.kind, inp.a) =>
               /\ Len(AsSlice(res'.val)) = Len(inp.a)
               /\ \A k \in 1 .. Len(inp.a) : AsSlice(res'.val)[k] = inp.a[k]

C12_RoundTrip == [][C12_IntoInnerStep]_vars

\* C12 witness: a SecretBytes built from two bytes has been unwrapped
C12_Witness ==
    /\ res.op = "into_inner"
    /\ inp.kind = "SecretBytes"
    /\ inp.a = <<1, 128>>
    /\ AsSlice(res.val) = <<1, 128>>

\* C13: scalar_from_hash returns HashEmpty without a hash field, the
\* little-endian value of the bytes reduced modulo the group order for a hash
\* of exactly 32 bytes and for one of exactly 64 bytes, and HashSizeInvalid
\* for every other length.
C13_ScalarFromHash ==
    res.op = "scalar_from_hash" =>
        LET hash == inp.pw.hash
        IN  IF ~hash.some
            THEN res.val = [ok |-> FALSE, err |-> "HashEmpty"]
            ELSE IF Len(hash.val) \in {32, 64}
            THEN res.val = [ok |-> TRUE, val |-> LeMod(hash.val, GroupOrder)]
            ELSE res.val = [ok |-> FALSE, err |-> "HashSizeInvalid"]

\* C13 witness: a hash of 64 bytes has been reduced to a non-zero scalar
C13_Witness ==
    /\ res.op = "scalar_from_hash"
    /\ inp.pw.hash.some
    /\ Len(inp.pw.hash.val) = 64
    /\ inp.pw.hash.val[1] = 128
    /\ res.val = [ok |-> TRUE, val |-> 2]

\* C14: the Debug rendering is the type name, "([redacted], len=", the
\* decimal length and ")": a function of the kind and the length only, so
\* that every secret of the same length renders the same.
C14_DebugRedacted ==
    res.op = "fmt" =>
        /\ res.val = <<secret.kind, "([redacted], len=",
                       Decimal(Len(expose(secret))), ")">>
        /\ \A k \in KeyInputs :
               Len(k) = Len(expose(secret))
                   => fmt(NewSecret(secret.kind, k)) = res.val

\* C14 witness: a SecretKey of two non-zero bytes has been rendered, and
\* another key of two bytes exists
C14_Witness ==
    /\ res.op = "fmt"
    /\ inp.kind = "SecretKey"
    /\ expose(secret) = <<1, 128>>
    /\ res.val = <<"SecretKey", "([redacted], len=", <<2>>, ")">>
    /\ <<128, 1>> \in KeyInputs

\* C15: after zeroize() and after drop, every byte expose() returns is zero
\* and every byte of the buffer that held the secret is zero.
C15_Zeroized ==
    res.op \in {"zeroize", "drop"} =>
        /\ \A k \in 1 .. Len(expose(secret)) : expose(secret)[k] = 0
        /\ Len(secret.vec.mem) = Len(inp.a)
        /\ \A k \in 1 .. Len(secret.vec.mem) : secret.vec.mem[k] = 0

\* C15 witness: a SecretKey of two non-zero bytes has been zeroized
C15_Witness ==
    /\ res.op = "zeroize"
    /\ inp.kind = "SecretKey"
    /\ inp.a = <<1, 128>>
    /\ secret.vec.mem = <<0, 0>>

\* C19: what ct_eq returns for keys of different lengths: false, unless the
\* lengths differ in no bit of their low 8 and every byte one key has at a
\* position is the other's, or zero where the other has none.
C19_LengthTruncated ==
    (res.op = "ct_eq" /\ Len(expose(secret)) # Len(inp.b)) =>
        LET a == expose(secret)
            b == inp.b
            m == MaxOf(Len(a), Len(b))
        IN  res.val =
                ( /\ BitXor(Len(a), Len(b)) % 256 = 0
                  /\ \A k \in 1 .. m :
                         (IF k <= Len(a) THEN a[k] ELSE 0)
                             = (IF k <= Len(b) THEN b[k] ELSE 0) )

\* C19 witness: a key of 1 byte and a key of 257 bytes, the first followed
\* by 256 zero bytes, have been compared and found equal
C19_Witness ==
    /\ res.op = "ct_eq"
    /\ expose(secret) = <<128>>
    /\ Len(inp.b) = 257
    /\ inp.b[1] = 128
    /\ res.val = TRUE

\* C19 as stated: ct_eq returns false for every pair of keys whose lengths
\* differ
C19_AsStated ==
    (res.op = "ct_eq" /\ Len(expose(secret)) # Len(inp.b)) => res.val = FALSE

\* C20: ct_eq makes exactly max(|a|, |b|) iterations: each iteration moves i
\* by one, the loop is left only at i = max(|a|, |b|), whatever the bytes.
C20_Iterations ==
    res.op = "ct_eq" => res.steps = MaxOf(Len(expose(secret)), Len(inp.b))

C20_IterationStep ==
    /\ (ct.pc = "loop" /\ ct'.pc = "loop") =>
           /\ ct'.i = ct.i + 1
           /\ ct.i < MaxOf(Len(expose(secret)), Len(inp.b))
    /\ (ct.pc = "loop" /\ ct'.pc = "idle") =>
           ct.i = MaxOf(Len(expose(secret)), Len(inp.b))

C20_NoEarlyExit == []C20_Iterations /\ [][C20_IterationStep]_vars

\* C20 witness: two keys of 257 bytes that differ in their first byte have
\* been compared in 257 iterations
C20_Witness ==
    /\ res.op = "ct_eq"
    /\ Len(expose(secret)) = 257
    /\ Len(inp.b) = 257
    /\ expose(secret)[1] # inp.b[1]
    /\ res.steps = 257
    /\ res.val = FALSE

(* C16 ------------------------------------------------------------------ *)
\* the six hash constructors, in the order of their domain index
HashDomains == << H0, H1, H2, H3, H4, H5 >>

\* Ta, Tb and sk as computed over one (ssid, sk1)
Transcripts(ssid, sk1) ==
    << compute_authenticator_messages(ssid, sk1)[1],
       compute_authenticator_messages(ssid, sk1)[2],
       compute_session_key(ssid, sk1) >>

\* Ta, Tb and sk absorb the same (ssid, sk1) after the tags of the domains
\* 3, 4 and 5, and no one of the three equals another
SeparatedTranscripts(ssid, sk1) ==
    LET T == Transcripts(ssid, sk1)
    IN  /\ \A k \in 1 .. 3 :
            /\ T[k][1] = << k + 2, 0, 0, 0 >>
            /\ SubSeq(T[k], 2, Len(T[k])) = << ssid, sk1 >>
        /\ \A k, l \in 1 .. 3 : k # l => T[k] # T[l]

\* C16: every constructor Hi, i in 0..5, has absorbed the 4-byte
\* little-endian encoding of i and nothing else, so the six constructors
\* start from pairwise different prefixes; wherever a role holds sk1, the
\* Ta (H3), Tb (H4) and sk (H5) derived from its (SSID, sk1) are pairwise
\* different, and they are the values the role sends, expects and keeps.
C16_DomainSeparation ==
    /\ \A i \in 0 .. 5 :
        /\ H(i) = << << i, 0, 0, 0 >> >>
        /\ HashDomains[i + 1] = H(i)
    /\ \A i, j \in 0 .. 5 : i # j => HashDomains[i + 1] # HashDomains[j + 1]
    /\ srv.sk1 # NoDigest =>
        /\ SeparatedTranscripts(srv.ssid, srv.sk1)
        /\ sOut.ta = Transcripts(srv.ssid, srv.sk1)[1]
        /\ srv.tb = Transcripts(srv.ssid, srv.sk1)[2]
    /\ cli.sk1 # NoDigest =>
        /\ SeparatedTranscripts(cli.ssid, cli.sk1)
        /\ cli.ta = Transcripts(cli.ssid, cli.sk1)[1]
        /\ cOut.tb = Transcripts(cli.ssid, cli.sk1)[2]
    /\ srv.sk # NoDigest => srv.sk \notin {sOut.ta, cOut.tb}
    /\ cli.sk # NoDigest => cli.sk \notin {sOut.ta, cOut.tb}

\* both roles hold the same sk1 and have derived their authenticators
C16_Witness ==
    /\ srv.state = "Confirmation"
    /\ cli.state = "Confirmation"
    /\ srv.sk1 # NoDigest
    /\ srv.sk1 = cli.sk1
    /\ sOut.ta = cli.ta
    /\ cOut.tb = srv.tb
    /\ sOut.ta # cOut.tb

(* C17 ------------------------------------------------------------------ *)
\* the 4-byte little-endian tag of domain i
Tag(i) == << i, 0, 0, 0 >>

\* the last operation was `op` of `role` and it returned Ok
Returned(role, op) == last.role = role /\ last.op = op /\ last.err = "none"

\* the generator of the CPace substep: H1 tag, SSID, PRS, CI
Generator(ssid, prs) == PointFromHash(<< Tag(1), ssid, prs, ChannelId >>)

\* the SSID is the H0 tag, then the server nonce, then the client nonce, on
\* the server (own nonce s, received t) and on the client (received s, own
\* t), and for any two nonces, different ones included
C17_SsidOrder ==
    /\ \A s, t \in 0 .. (MaxNonce + 1) : compute_ssid(s, t) = << Tag(0), s, t >>
    /\ Returned("server", "begin_fresh_ssid") =>
            srv.ssid = << Tag(0), sOut.nonce, last.nonce >>
    /\ Returned("client", "begin_fresh_ssid") =>
            cli.ssid = << Tag(0), last.nonce, cOut.nonce >>

\* what an operation that derives a transcript value leaves, in terms of
\* the SSID and the secrets the role held when it was called
C17_TranscriptStep ==
    /\ Returned("server", "receive_client_pub")' =>
        \E x \in Scalars :
            /\ sOut'.pub = PointMul(Generator(srv.ssid, Compress(srv.verifier)), x)
            /\ srv'.sk1 = << Tag(2), srv.ssid, Compress(PointMul(last'.point, x)) >>
            /\ sOut'.ta = << Tag(3), srv.ssid, srv'.sk1 >>
            /\ srv'.tb = << Tag(4), srv.ssid, srv'.sk1 >>
    /\ Returned("client", "generate_keypair")' =>
            cOut'.pub = PointMul(Generator(cli.ssid, cli.prs), cli'.y)
    /\ Returned("client", "receive_server_pub")' =>
            /\ cli'.sk1 = << Tag(2), cli.ssid, Compress(PointMul(last'.point, cli.y)) >>
            /\ cli'.ta = << Tag(3), cli.ssid, cli'.sk1 >>
            /\ cOut'.tb = << Tag(4), cli.ssid, cli'.sk1 >>
    /\ Returned("server", "receive_client_authenticator")' =>
            srv'.sk = << Tag(5), srv.ssid, srv.sk1 >>
    /\ Returned("client", "receive_server_authenticator")' =>
            cli'.sk = << Tag(5), cli.ssid, cli.sk1 >>

\* C17: every transcript hash absorbs its inputs in one fixed order, the
\* same on both roles: SSID = H0 tag, s, t; generator = H1 tag, SSID, PRS,
\* CI; sk1 = H2 tag, SSID, compressed shared point; Ta = H3 tag, SSID, sk1;
\* Tb = H4 tag, SSID, sk1; sk = H5 tag, SSID, sk1.  No operation absorbs
\* them in another order or leaves the SSID out of H1..H5.
C17_CanonicalOrder == []C17_SsidOrder /\ [][C17_TranscriptStep]_vars

\* the client has derived sk1, Ta and Tb over the SSID of the two nonces
\* sent, and they are the server's
C17_Witness ==
    /\ Returned("client", "receive_server_pub")
    /\ srv.ssid = compute_ssid(sOut.nonce, cOut.nonce)
    /\ cli.ssid = srv.ssid
    /\ ~IsIdentity(sOut.pub)
    /\ ~IsIdentity(cOut.pub)
    /\ cli.sk1 = srv.sk1
    /\ cli.ta = sOut.ta
    /\ cOut.tb = srv.tb

HonestInit == Init /\ RightPassword

\* a step of an honest run: each role is handed what its peer has sent,
\* both roles adopt the same SSID, and no ephemeral key pair is the
\* degenerate one (private scalar 0, public key the identity)
Faithful ==
    /\ last'.op \in {"receive_client_pub"} =>
            cOut.pub # NoPoint /\ last'.point = cOut.pub
    /\ last'.op \in {"receive_server_pub"} =>
            sOut.pub # NoPoint /\ last'.point = sOut.pub
    /\ last'.op \in {"receive_client_authenticator"} =>
            cOut.tb # NoDigest /\ last'.tag = cOut.tb
    /\ last'.op \in {"receive_server_authenticator"} =>
            sOut.ta # NoDigest /\ last'.tag = sOut.ta
    /\ (srv'.ssid # NoDigest /\ cli'.ssid # NoDigest) => srv'.ssid = cli'.ssid
    /\ sOut'.aug.type = "AugmentationInfo" => ~IsIdentity(sOut'.aug.x_pub)
    /\ ~IsIdentity(sOut'.pub)
    /\ ~IsIdentity(cOut'.pub)

\* the operation returns Ok
Succeeds == last'.err = "none"

HonestNext ==
    \/ ServerBeginFreshSsid /\ Faithful
    \/ ServerBeginPrestablishedSsid /\ Faithful
    \/ ServerGenerateClientInfo /\ Faithful
    \/ ServerReceiveClientPub /\ Faithful
    \/ ServerReceiveClientAuthenticator /\ Faithful
    \/ ServerIntoSessionKey /\ Faithful
    \/ ClientBeginFreshSsid /\ Faithful
    \/ ClientBeginPrestablishedSsid /\ Faithful
    \/ ClientReceiveAugmentationInfo /\ Faithful
    \/ ClientGenerateKeypair /\ Faithful
    \/ ClientReceiveServerPub /\ Faithful
    \/ ClientReceiveServerAuthenticator /\ Faithful
    \/ ClientIntoSessionKey /\ Faithful

\* a role either begins with a fresh or with a pre-established SSID
ServerBegin == ServerBeginFreshSsid \/ ServerBeginPrestablishedSsid

ClientBegin == ClientBeginFreshSsid \/ ClientBeginPrestablishedSsid

\* each role keeps calling the operation of the state it is in until the
\* call returns Ok: an Error::Rng or a rejected input leaves the state as
\* it was and the call is repeated
HonestFairness ==
    /\ WF_vars(ServerBegin /\ Faithful /\ Succeeds)
    /\ WF_vars(ServerGenerateClientInfo /\ Faithful /\ Succeeds)
    /\ WF_vars(ServerReceiveClientPub /\ Faithful /\ Succeeds)
    /\ WF_vars(ServerReceiveClientAuthenticator /\ Faithful /\ Succeeds)
    /\ WF_vars(ClientBegin /\ Faithful /\ Succeeds)
    /\ WF_vars(ClientReceiveAugmentationInfo /\ Faithful /\ Succeeds)
    /\ WF_vars(ClientGenerateKeypair /\ Faithful /\ Succeeds)
    /\ WF_vars(ClientReceiveServerPub /\ Faithful /\ Succeeds)
    /\ WF_vars(ClientReceiveServerAuthenticator /\ Faithful /\ Succeeds)

HonestSpec == HonestInit /\ [][HonestNext]_vars /\ HonestFairness

(* C21 ------------------------------------------------------------------ *)
\* the authenticators of the two roles agree and no check has failed
C21_SamePair ==
    /\ (srv.sk1 # NoDigest /\ cli.sk1 # NoDigest) =>
        /\ compute_authenticator_messages(srv.ssid, srv.sk1)
               = compute_authenticator_messages(cli.ssid, cli.sk1)
        /\ sOut.ta = cli.ta
        /\ cOut.tb = srv.tb
    /\ last.err \notin {"AuthenticationFailed", "IllegalPoint"}

\* both roles are in SessionEstablished
C21_Established ==
    /\ srv.state = "SessionEstablished"
    /\ cli.state = "SessionEstablished"

\* C21: in an honest run the (Ta, Tb) pair the server computes from
\* (SSID, sk1) equals the pair the client computes: the Ta the server sends
\* passes the client's check and the Tb the client sends passes the
\* server's, so neither side raises AuthenticationFailed, and both roles
\* eventually reach SessionEstablished.
C21_HonestRun == []C21_SamePair /\ <>C21_Established

\* both authenticators have been checked and accepted, and the two roles
\* hold the same session key
C21_Witness ==
    /\ C21_Established
    /\ Returned("server", "receive_client_authenticator")
    /\ last.tag = cOut.tb
    /\ sOut.ta # cOut.tb
    /\ srv.sk # NoDigest
    /\ srv.sk = cli.sk

(* C22 ------------------------------------------------------------------ *)
\* into_inner hands out the very vector the wrapper held and leaves the
\* wrapper, which is dropped, with an empty buffer; dropping the returned
\* vector later overwrites nothing
C22_MoveStep ==
    /\ (res'.op = "into_inner" /\ res.op # "into_inner") =>
        /\ res'.val = secret.vec
        /\ secret'.vec = EmptyVec
        /\ Len(secret'.vec.mem) = 0
        /\ ~secret'.live
    /\ res'.op = "drop_inner" =>
        /\ res.op = "into_inner"
        /\ res'.freed = res.val.mem
        /\ secret' = secret

\* once the secret has been moved out, the wrapper holds no byte of it and
\* the bytes the wrapper held are in the returned vector, or in its freed
\* buffer, as they were
C22_OnlyInReturned ==
    /\ res.op = "into_inner" =>
        /\ secret.vec = EmptyVec
        /\ ~secret.live
        /\ Len(res.val.mem) = Len(inp.a)
    /\ res.op = "drop_inner" =>
        /\ secret.vec = EmptyVec
        /\ Len(res.freed) = Len(inp.a)

\* C22: into_inner on SecretBytes and SecretKey moves the secret out rather
\* than copying it: the wrapper dropped at the end of the call holds an
\* empty buffer, so its zeroize-on-drop does not alter the returned bytes;
\* after the call the secret exists only in the returned vector, which is
\* not zeroized when it is dropped.
C22_IntoInnerMoves == []C22_OnlyInReturned /\ [][C22_MoveStep]_vars

\* a SecretKey of two non-zero bytes has been moved out, and the returned
\* vector dropped: its freed buffer still holds the two bytes
C22_Witness ==
    /\ res.op = "drop_inner"
    /\ inp.kind = "SecretKey"
    /\ inp.a = <<1, 128>>
    /\ res.freed = <<1, 128>>
    /\ secret.vec = EmptyVec
    /\ ~secret.live

====
